---- MODULE Spec2Model ----
(***************************************************************************)
(* RotaVendas Pro: the App component's state (src/App.tsx, first revision  *)
(* in the file, lines 23-425) and the two adapters of                      *)
(* src/services/geminiService.ts (first revision, lines 9-109).            *)
(*                                                                         *)
(* A client id `client-${Date.now()}-${index}` is modelled by the number   *)
(* ClientId(t, index); the pair (t, index) is recovered from it, as it is  *)
(* from the string.  An empty string stands for a field that is empty or   *)
(* absent (both are falsy for the `||` defaults of the mapping).  The      *)
(* fields whatsapp, lat and lng are not read by any handler and are left   *)
(* out of the records.                                                     *)
(*                                                                         *)
(* The external service is the environment: each completion action takes   *)
(* the reply as an input.                                                  *)
(***************************************************************************)
EXTENDS Integers, Sequences, FiniteSets, TLC

\* ------------------------------------------------------------- bounds
MaxClients == 2
MaxBatch == 2
MaxClock == 0
MaxSelected == 2
MaxReply == 2

VARIABLES
    apiKey,               \* process.env.API_KEY
    callArgs,             \* number of arguments the build passes to optimizeRoute
    step,                 \* AppStep
    clients,              \* the registry
    loading,              \* the busy flag
    errorMessage,         \* string | null
    selectedNeighborhood,
    selectedClientIds,
    optimizedRoute,       \* the itinerary
    editingClient,        \* <<>> (null) or <<client>>
    inflight,             \* the outstanding asynchronous operations
    removed               \* history: <<id>> of the last removeById (RemoveSpec)

vars == <<apiKey, callArgs, step, clients, loading, errorMessage,
          selectedNeighborhood, selectedClientIds, optimizedRoute,
          editingClient, inflight, removed>>

\* ------------------------------------------------------------- values
Null == "null"
NoId == -1
NonString == -2
ForeignId == 999

DATABASE == "DATABASE"
PLANNER == "PLANNER"
ROUTE == "ROUTE"

ApiKeys == {"", "undefined", "abc", "AIza-valid-key"}

KeyLength(k) ==
    CASE k = "" -> 0
      [] k = "abc" -> 3
      [] k = "undefined" -> 9
      [] OTHER -> 14

\* mutant of isApiKeyReady: the test of the length left out
isApiKeyReady_noLength == apiKey # "" /\ apiKey # "undefined"

isApiKeyReady == apiKey # "" /\ apiKey # "undefined" /\ KeyLength(apiKey) > 5

\* getAiClient throws when this is FALSE
getAiClient == apiKey # "" /\ apiKey # "undefined"

IdStride == MaxBatch + 1

ClientId(t, index) == t * IdStride + index

\* the values Date.now() may return when a reply is mapped (the wall clock)
Times == 0..MaxClock

\* ------------------------------------------------------------- helpers
Range(s) == {s[i] : i \in DOMAIN s}

Includes(s, x) == \E i \in DOMAIN s : s[i] = x

RECURSIVE Flatten(_)
Flatten(ss) == IF ss = <<>> THEN <<>> ELSE Head(ss) \o Flatten(Tail(ss))

SeqsUpTo(S, n) == UNION {[1..k -> S] : k \in 0..n}

Ids(cs) == [i \in DOMAIN cs |-> cs[i].id]

\* clients.find(c => c.id === id): <<>> when there is none, else <<the first>>
Find(cs, id) ==
    LET hits == {i \in DOMAIN cs : cs[i].id = id}
    IN  IF hits = {} THEN <<>>
        ELSE <<cs[CHOOSE i \in hits : \A j \in hits : i <= j]>>

\* ------------------------------------------------------------- extraction
\* objects the service may return for a document
Ana ==
    [name |-> "Ana", address |-> "Rua A 1", neighborhood |-> "Tirol",
     city |-> "Natal", state |-> "RN", id |-> NoId, isNull |-> FALSE]

\* an id the service put into an extracted object
AiId == 777

\* no address, neighborhood, city or state, and an id field of its own
Bia ==
    [name |-> "Bia", address |-> "", neighborhood |-> "",
     city |-> "", state |-> "", id |-> AiId, isNull |-> FALSE]

\* the JSON value null in place of an object
NullItem ==
    [name |-> "", address |-> "", neighborhood |-> "",
     city |-> "", state |-> "", id |-> NoId, isNull |-> TRUE]

Batches ==
    {b \in {<<>>, <<Ana>>, <<Ana, Bia>>, <<Ana, NullItem>>, <<Ana, Bia, Ana>>} :
        Len(b) <= MaxBatch}

ExtractReplies ==
    {[kind |-> k, items |-> <<>>] : k \in {"throw", "notext", "unparseable", "nonarray"}}
    \cup {[kind |-> "array", items |-> b] : b \in Batches}

\* mutant of mapItem: the spread written last, so a field of the item wins
mapItem_spreadLast(item, t, index) ==
    [id |-> IF item.id # NoId THEN item.id ELSE ClientId(t, index),
     name |-> item.name,
     address |-> item.address,
     neighborhood |-> IF item.neighborhood = "" THEN "Centro" ELSE item.neighborhood,
     city |-> IF item.city = "" THEN "Natal" ELSE item.city,
     state |-> IF item.state = "" THEN "RN" ELSE item.state,
     country |-> "Brasil"]

\* mutant of mapItem: the fields of the item as they came, without defaults
mapItem_noDefaults(item, t, index) ==
    [id |-> ClientId(t, index),
     name |-> item.name,
     address |-> item.address,
     neighborhood |-> item.neighborhood,
     city |-> item.city,
     state |-> item.state,
     country |-> "Brasil"]

\* { ...item, id, neighborhood, city, state, country }
mapItem(item, t, index) ==
    [id |-> ClientId(t, index),
     name |-> item.name,
     address |-> item.address,
     neighborhood |-> IF item.neighborhood = "" THEN "Centro" ELSE item.neighborhood,
     city |-> IF item.city = "" THEN "Natal" ELSE item.city,
     state |-> IF item.state = "" THEN "RN" ELSE item.state,
     country |-> "Brasil"]

\* mutant of extractClientsFromPDF: the mapping stops at the first element it
\* cannot map and returns what it has
extractClientsFromPDF_partial(reply, t) ==
    IF reply.kind # "array"
    THEN [ok |-> FALSE, value |-> <<>>, message |-> "Erro ao processar PDF: ..."]
    ELSE LET bad == {i \in DOMAIN reply.items : reply.items[i].isNull}
             n == IF bad = {} THEN Len(reply.items)
                  ELSE (CHOOSE i \in bad : \A j \in bad : i <= j) - 1
         IN  [ok |-> TRUE,
              value |-> [i \in 1..n |-> mapItem(reply.items[i], t, i - 1)],
              message |-> ""]

\* extractClientsFromPDF after getAiClient: [ok, value, message]
extractClientsFromPDF(reply, t) ==
    IF reply.kind = "throw"
    THEN [ok |-> FALSE, value |-> <<>>, message |-> "Erro ao processar PDF: ..."]
    ELSE IF reply.kind = "notext"
    THEN [ok |-> FALSE, value |-> <<>>,
          message |-> "Erro ao processar PDF: ..."]
    ELSE IF reply.kind = "unparseable"
    THEN [ok |-> FALSE, value |-> <<>>, message |-> "Erro ao processar PDF: ..."]
    ELSE IF reply.kind = "nonarray"
    THEN [ok |-> FALSE, value |-> <<>>,
          message |-> "Erro ao processar PDF: ..."]
    ELSE IF \E i \in DOMAIN reply.items : reply.items[i].isNull
    THEN [ok |-> FALSE, value |-> <<>>,
          message |-> "Erro ao processar PDF: ..."]
    ELSE [ok |-> TRUE,
          value |-> [i \in DOMAIN reply.items |-> mapItem(reply.items[i], t, i - 1)],
          message |-> ""]

\* ------------------------------------------------------------- state
Init ==
    /\ apiKey \in ApiKeys
    /\ callArgs \in {1, 3}
    /\ step = DATABASE
    /\ clients = <<>>
    /\ loading = FALSE
    /\ errorMessage = Null
    /\ selectedNeighborhood = ""
    /\ selectedClientIds = <<>>
    /\ optimizedRoute = <<>>
    /\ editingClient = <<>>
    /\ inflight = <<>>
    /\ removed = <<>>

\* mutant of Interactive: the controls stay enabled while loading
Interactive_ignoresLoading == isApiKeyReady /\ editingClient = <<>>

\* the page is rendered and not covered by the loading overlay or the modal
Interactive == isApiKeyReady /\ ~loading /\ editingClient = <<>>

Request(kind, snapshot, toVisit) ==
    [kind |-> kind, snapshot |-> snapshot, toVisit |-> toVisit]

Without(s, i) == [k \in 1..(Len(s) - 1) |-> IF k < i THEN s[k] ELSE s[k + 1]]

handleFileUpload ==
    /\ Interactive
    /\ step = DATABASE
    /\ loading' = TRUE
    /\ errorMessage' = Null
    /\ inflight' = Append(inflight, Request("read", <<>>, <<>>))
    /\ UNCHANGED <<removed, apiKey, callArgs, step, clients, selectedNeighborhood,
                   selectedClientIds, optimizedRoute, editingClient>>

\* reader.onerror has no handler: the read ends and nothing else runs
readerFails(i) ==
    /\ i \in DOMAIN inflight
    /\ inflight[i].kind = "read"
    /\ inflight' = Without(inflight, i)
    /\ UNCHANGED <<removed, apiKey, callArgs, step, clients, loading, errorMessage,
                   selectedNeighborhood, selectedClientIds, optimizedRoute,
                   editingClient>>

\* reader.onload up to the await: getAiClient, then the request is sent
readerOnload(i) ==
    /\ i \in DOMAIN inflight
    /\ inflight[i].kind = "read"
    /\ IF getAiClient
       THEN /\ inflight' = [inflight EXCEPT ![i].kind = "extract"]
            /\ UNCHANGED <<loading, errorMessage>>
       ELSE /\ inflight' = Without(inflight, i)
            /\ errorMessage' = "API_KEY nao configurada no ambiente."
            /\ loading' = FALSE
    /\ UNCHANGED <<removed, apiKey, callArgs, step, clients, selectedNeighborhood,
                   selectedClientIds, optimizedRoute, editingClient>>

\* mutant of addClients: [...extracted, ...prev]
addClients_prepend(prev, extracted) == extracted \o prev

\* setClients(prev => [...prev, ...extracted])
addClients(prev, extracted) == prev \o extracted

\* mutant of onloadResult: an empty result is appended like any other
onloadResult_noEmptyCheck(prev, msg, r) ==
    IF ~r.ok
    THEN [clients |-> prev, errorMessage |-> r.message]
    ELSE [clients |-> addClients(prev, r.value), errorMessage |-> msg]

\* reader.onload after the await, lines 54-60: what becomes of the registry and
\* of the message, given the result r of extractClientsFromPDF
onloadResult(prev, msg, r) ==
    IF ~r.ok
    THEN [clients |-> prev, errorMessage |-> r.message]
    ELSE IF Len(r.value) > 0
    THEN [clients |-> addClients(prev, r.value), errorMessage |-> msg]
    ELSE [clients |-> prev,
          errorMessage |-> "Nenhum cliente foi detectado no arquivo."]

extractResolved(i, reply, t) ==
    /\ i \in DOMAIN inflight
    /\ inflight[i].kind = "extract"
    /\ LET r == extractClientsFromPDF(reply, t)
           out == onloadResult(clients, errorMessage, r)
       IN  /\ Len(out.clients) <= MaxClients
           /\ clients' = out.clients
           /\ errorMessage' = out.errorMessage
    /\ loading' = FALSE
    /\ inflight' = Without(inflight, i)
    /\ UNCHANGED <<removed, apiKey, callArgs, step, selectedNeighborhood,
                   selectedClientIds, optimizedRoute, editingClient>>

\* ------------------------------------------------------------- registry
\* mutant of removeClient: prev.splice(prev.findIndex(x => x.id === id), 1),
\* which removes the last record when the index is -1
removeClient_splice(prev, id) ==
    LET hits == {i \in DOMAIN prev : prev[i].id = id}
        at == IF hits = {} THEN Len(prev)
              ELSE CHOOSE i \in hits : \A j \in hits : i <= j
    IN  [k \in 1..(Len(prev) - (IF prev = <<>> THEN 0 ELSE 1)) |->
           IF k < at THEN prev[k] ELSE prev[k + 1]]

\* prev.filter(x => x.id !== c.id)
removeClient(prev, id) == SelectSeq(prev, LAMBDA x : x.id # id)

\* mutant of onDelete: the stops of the deleted client leave the itinerary too
onDelete_cascade(id) ==
    /\ clients' = removeClient(clients, id)
    /\ optimizedRoute' = SelectSeq(optimizedRoute, LAMBDA x : x.id # id)
    /\ UNCHANGED <<apiKey, callArgs, step, loading, errorMessage,
                   selectedNeighborhood, selectedClientIds,
                   editingClient, inflight>>

\* the handler of a row's delete button, for the id of that row
onDelete(id) ==
    /\ clients' = removeClient(clients, id)
    /\ UNCHANGED <<apiKey, callArgs, step, loading, errorMessage,
                   selectedNeighborhood, selectedClientIds, optimizedRoute,
                   editingClient, inflight>>

\* the button is rendered for the rows of the table of the DATABASE step
deleteClient(c) ==
    /\ Interactive
    /\ step = DATABASE
    /\ c \in Range(clients)
    /\ onDelete(c.id)
    /\ UNCHANGED removed

openEdit(c) ==
    /\ Interactive
    /\ step = DATABASE
    /\ c \in Range(clients)
    /\ editingClient' = <<c>>
    /\ UNCHANGED <<removed, apiKey, callArgs, step, clients, loading, errorMessage,
                   selectedNeighborhood, selectedClientIds, optimizedRoute,
                   inflight>>

\* the inputs of the modal that the model types into
EditFields == {"name"}

\* the inputs of the modal marked `required`
RequiredFields == {"name", "address", "neighborhood", "city"}

EditValue(f) == IF f = "name" THEN "Zed" ELSE "Av Z 9"

\* the inputs of the modal: setEditingClient({...editingClient, [f]: value})
changeEdit(f) ==
    /\ isApiKeyReady /\ ~loading
    /\ editingClient # <<>>
    /\ editingClient' = <<[editingClient[1] EXCEPT ![f] = EditValue(f)]>>
    /\ UNCHANGED <<removed, apiKey, callArgs, step, clients, loading, errorMessage,
                   selectedNeighborhood, selectedClientIds, optimizedRoute,
                   inflight>>

cancelEdit ==
    /\ isApiKeyReady /\ ~loading
    /\ editingClient # <<>>
    /\ editingClient' = <<>>
    /\ UNCHANGED <<removed, apiKey, callArgs, step, clients, loading, errorMessage,
                   selectedNeighborhood, selectedClientIds, optimizedRoute,
                   inflight>>

\* prev.map(c => c.id === editingClient.id ? editingClient : c)
updateClient(prev, edited) ==
    [i \in DOMAIN prev |-> IF prev[i].id = edited.id THEN edited ELSE prev[i]]

\* the form's inputs are `required`: it submits only when they are filled
handleSaveEdit ==
    /\ isApiKeyReady /\ ~loading
    /\ editingClient # <<>>
    /\ \A f \in RequiredFields : editingClient[1][f] # ""
    /\ clients' = updateClient(clients, editingClient[1])
    /\ editingClient' = <<>>
    /\ UNCHANGED <<removed, apiKey, callArgs, step, loading, errorMessage,
                   selectedNeighborhood, selectedClientIds, optimizedRoute,
                   inflight>>

\* ------------------------------------------------------------- planner
neighborhoods == {c.neighborhood : c \in Range(clients)} \ {""}

filteredClients ==
    IF selectedNeighborhood # ""
    THEN SelectSeq(clients, LAMBDA c : c.neighborhood = selectedNeighborhood)
    ELSE clients

setStep(s) ==
    /\ Interactive
    /\ s \in {DATABASE, PLANNER}
    /\ step' = s
    /\ UNCHANGED <<removed, apiKey, callArgs, clients, loading, errorMessage,
                   selectedNeighborhood, selectedClientIds, optimizedRoute,
                   editingClient, inflight>>

dismissError ==
    /\ Interactive
    /\ errorMessage # Null
    /\ errorMessage' = Null
    /\ UNCHANGED <<removed, apiKey, callArgs, step, clients, loading,
                   selectedNeighborhood, selectedClientIds, optimizedRoute,
                   editingClient, inflight>>

setSelectedNeighborhood(n) ==
    /\ Interactive
    /\ step = PLANNER
    /\ n \in neighborhoods \cup {""}
    /\ selectedNeighborhood' = n
    /\ UNCHANGED <<removed, apiKey, callArgs, step, clients, loading, errorMessage,
                   selectedClientIds, optimizedRoute, editingClient, inflight>>

\* mutant of toggle: a selected id is removed by emptying the selection
toggle_clears(prev, id) ==
    IF Includes(prev, id) THEN <<>> ELSE Append(prev, id)

\* prev.includes(id) ? prev.filter(i => i !== id) : [...prev, id]
toggle(prev, id) ==
    IF Includes(prev, id)
    THEN SelectSeq(prev, LAMBDA i : i # id)
    ELSE Append(prev, id)

toggleClientSelection(c) ==
    /\ Interactive
    /\ step = PLANNER
    /\ c \in Range(filteredClients)
    /\ Includes(selectedClientIds, c.id) \/ Len(selectedClientIds) < MaxSelected
    /\ selectedClientIds' = toggle(selectedClientIds, c.id)
    /\ UNCHANGED <<removed, apiKey, callArgs, step, clients, loading, errorMessage,
                   selectedNeighborhood, optimizedRoute, editingClient,
                   inflight>>

\* Array.from(new Set(s)): the first occurrence of each element, in order
RECURSIVE Dedup(_)
Dedup(s) ==
    IF s = <<>> THEN <<>>
    ELSE LET r == Dedup(SubSeq(s, 1, Len(s) - 1))
         IN  IF Includes(r, s[Len(s)]) THEN r ELSE Append(r, s[Len(s)])

\* mutant of selectAll: [...prev, ...ids] without the Set
selectAll_concat(prev, ids) == prev \o ids

\* Array.from(new Set([...prev, ...ids]))
selectAll(prev, ids) == Dedup(prev \o ids)

\* the select-all button of the revisions whose sequencing call passes three
\* arguments; it acts on the clients of the chosen neighborhood
selectAllInNeighborhood ==
    /\ Interactive
    /\ step = PLANNER
    /\ callArgs = 3
    /\ selectedNeighborhood # ""
    /\ LET sel == selectAll(selectedClientIds, Ids(filteredClients))
       IN  /\ Len(sel) <= MaxSelected
           /\ selectedClientIds' = sel
    /\ UNCHANGED <<removed, apiKey, callArgs, step, clients, loading, errorMessage,
                   selectedNeighborhood, optimizedRoute, editingClient,
                   inflight>>

clearSelection ==
    /\ Interactive
    /\ step = PLANNER
    /\ Len(selectedClientIds) > 0
    /\ selectedClientIds' = <<>>
    /\ UNCHANGED <<removed, apiKey, callArgs, step, clients, loading, errorMessage,
                   selectedNeighborhood, optimizedRoute, editingClient,
                   inflight>>

\* ------------------------------------------------------------- sequencing
\* what the service may answer to a sequencing request
RouteReplies(req) ==
    {[kind |-> k, ids |-> <<>>] : k \in {"throw", "notext", "unparseable", "nonarray"}}
    \cup {[kind |-> "array", ids |-> a] :
            a \in SeqsUpTo(Range(Ids(req.snapshot)) \cup {ForeignId, NonString}, MaxReply)}

\* optimizeRoute, called with the list bound to `clients`: the value it resolves to
optimizeRoute(reply, cs) ==
    IF reply.kind \in {"throw", "unparseable"}
    THEN [isArray |-> TRUE, value |-> Ids(cs)]
    ELSE IF reply.kind = "notext"
    THEN [isArray |-> TRUE, value |-> <<>>]
    ELSE IF reply.kind = "nonarray"
    THEN [isArray |-> FALSE, value |-> <<>>]
    ELSE [isArray |-> TRUE, value |-> reply.ids]

RouteStop(c, k) ==
    [id |-> c.id, name |-> c.name, address |-> c.address,
     neighborhood |-> c.neighborhood, city |-> c.city, state |-> c.state,
     country |-> c.country, stopOrder |-> k]

\* mutant of orderedList: the clients named by the reply, in registry order
orderedList_registryOrder(orderedIds, cs) ==
    LET named == SelectSeq(cs, LAMBDA c : Includes(orderedIds, c.id))
    IN  [k \in DOMAIN named |-> RouteStop(named[k], k)]

\* mutant of orderedList: an id that the reply repeats is resolved once
orderedList_dedup(orderedIds, cs) ==
    Flatten([k \in DOMAIN orderedIds |->
               LET client == Find(cs, orderedIds[k])
               IN  IF client # <<>>
                      /\ \A j \in 1..(k - 1) : orderedIds[j] # orderedIds[k]
                   THEN <<RouteStop(client[1], k)>> ELSE <<>>])

\* orderedIds.map((id, index) => client ? {...client, stopOrder: index + 1} : null)
\*           .filter(Boolean)
orderedList(orderedIds, cs) ==
    Flatten([k \in DOMAIN orderedIds |->
               LET client == Find(cs, orderedIds[k])
               IN  IF client # <<>> THEN <<RouteStop(client[1], k)>> ELSE <<>>])

\* mutant of clientsToVisit: the selected clients among those the filter shows
clientsToVisit_filtered ==
    SelectSeq(filteredClients, LAMBDA c : Includes(selectedClientIds, c.id))

\* mutant of clientsToVisit: selectedClientIds.map(id => clients.find(...))
clientsToVisit_clickOrder ==
    Flatten([k \in DOMAIN selectedClientIds |-> Find(clients, selectedClientIds[k])])

\* clients.filter(c => selectedClientIds.includes(c.id))
clientsToVisit == SelectSeq(clients, LAMBDA c : Includes(selectedClientIds, c.id))

\* calculateRouteWithAI up to the await
calculateRouteWithAI ==
    /\ Interactive
    /\ step = PLANNER
    /\ Len(selectedClientIds) # 0
    /\ IF ~getAiClient
       THEN /\ errorMessage' = "API_KEY nao configurada no ambiente."
            /\ UNCHANGED <<loading, inflight>>
       ELSE IF callArgs = 1
       THEN \* optimizeRoute(clientsToVisit): `clients` is undefined
            /\ errorMessage' = "Cannot read properties of undefined (reading 'map')"
            /\ UNCHANGED <<loading, inflight>>
       ELSE /\ loading' = TRUE
            /\ errorMessage' = Null
            /\ inflight' = Append(inflight, Request("route", clients, clientsToVisit))
    /\ UNCHANGED <<removed, apiKey, callArgs, step, clients, selectedNeighborhood,
                   selectedClientIds, optimizedRoute, editingClient>>

\* mutant of routeResolved: line 96 left out, an empty list is an itinerary
routeResolved_noEmptyCheck(i, reply) ==
    /\ i \in DOMAIN inflight
    /\ inflight[i].kind = "route"
    /\ LET r == optimizeRoute(reply, inflight[i].toVisit)
           list == orderedList(r.value, inflight[i].snapshot)
       IN  IF ~r.isArray
           THEN /\ errorMessage' = "orderedIds.map is not a function"
                /\ UNCHANGED <<optimizedRoute, step>>
           ELSE /\ optimizedRoute' = list
                /\ step' = ROUTE
                /\ UNCHANGED errorMessage
    /\ loading' = FALSE
    /\ inflight' = Without(inflight, i)
    /\ UNCHANGED <<removed, apiKey, callArgs, clients, selectedNeighborhood,
                   selectedClientIds, editingClient>>

\* mutant of routeResolved: the itinerary is emptied before the list is tested
routeResolved_clearsFirst(i, reply) ==
    /\ i \in DOMAIN inflight
    /\ inflight[i].kind = "route"
    /\ LET r == optimizeRoute(reply, inflight[i].toVisit)
           list == orderedList(r.value, inflight[i].snapshot)
       IN  IF ~r.isArray
           THEN /\ errorMessage' = "orderedIds.map is not a function"
                /\ UNCHANGED <<optimizedRoute, step>>
           ELSE IF Len(list) = 0
           THEN /\ errorMessage' = "Nao foi possivel gerar a rota."
                /\ optimizedRoute' = <<>>
                /\ UNCHANGED step
           ELSE /\ optimizedRoute' = list
                /\ step' = ROUTE
                /\ UNCHANGED errorMessage
    /\ loading' = FALSE
    /\ inflight' = Without(inflight, i)
    /\ UNCHANGED <<removed, apiKey, callArgs, clients, selectedNeighborhood,
                   selectedClientIds, editingClient>>

\* calculateRouteWithAI after the await
routeResolved(i, reply) ==
    /\ i \in DOMAIN inflight
    /\ inflight[i].kind = "route"
    /\ LET r == optimizeRoute(reply, inflight[i].toVisit)
           list == orderedList(r.value, inflight[i].snapshot)
       IN  IF ~r.isArray
           THEN /\ errorMessage' = "orderedIds.map is not a function"
                /\ UNCHANGED <<optimizedRoute, step>>
           ELSE IF Len(list) = 0
           THEN /\ errorMessage' = "Nao foi possivel gerar a rota."
                /\ UNCHANGED <<optimizedRoute, step>>
           ELSE /\ optimizedRoute' = list
                /\ step' = ROUTE
                /\ UNCHANGED errorMessage
    /\ loading' = FALSE
    /\ inflight' = Without(inflight, i)
    /\ UNCHANGED <<removed, apiKey, callArgs, clients, selectedNeighborhood,
                   selectedClientIds, editingClient>>

Next ==
    \/ handleFileUpload
    \/ \E i \in DOMAIN inflight : readerFails(i)
    \/ \E i \in DOMAIN inflight : readerOnload(i)
    \/ \E i \in DOMAIN inflight, reply \in ExtractReplies, t \in Times :
          extractResolved(i, reply, t)
    \/ \E c \in Range(clients) : deleteClient(c)
    \/ \E c \in Range(clients) : openEdit(c)
    \/ \E f \in EditFields : changeEdit(f)
    \/ cancelEdit
    \/ handleSaveEdit
    \/ \E s \in {DATABASE, PLANNER} : setStep(s)
    \/ dismissError
    \/ \E n \in neighborhoods \cup {""} : setSelectedNeighborhood(n)
    \/ \E c \in Range(clients) : toggleClientSelection(c)
    \/ selectAllInNeighborhood
    \/ clearSelection
    \/ calculateRouteWithAI
    \/ \E i \in DOMAIN inflight :
          \E reply \in RouteReplies(inflight[i]) : routeResolved(i, reply)

Spec == Init /\ [][Next]_vars

\* ------------------------------------------------------------- removal alone
\* The delete handler as the registry operation remove(id), applied to any id:
\* the page offers it for the ids of the rendered rows only.
IdUniverse == {ClientId(t, k) : t \in Times, k \in 0..(MaxBatch - 1)} \cup {ForeignId}

RegistryRecords ==
    {mapItem(item, t, k) : item \in {Ana, Bia}, t \in Times, k \in 0..(MaxBatch - 1)}

InitRemove ==
    /\ apiKey = "AIza-valid-key"
    /\ callArgs = 3
    /\ step = DATABASE
    /\ clients \in SeqsUpTo(RegistryRecords, MaxClients)
    /\ loading = FALSE
    /\ errorMessage \in {Null, "Nenhum cliente foi detectado no arquivo."}
    /\ selectedNeighborhood = ""
    /\ selectedClientIds \in SeqsUpTo(IdUniverse \ {ForeignId}, 1)
    /\ optimizedRoute \in {<<>>} \cup {<<RouteStop(c, 1)>> : c \in RegistryRecords}
    /\ editingClient = <<>>
    /\ inflight = <<>>
    /\ removed = <<>>

removeById(id) ==
    /\ onDelete(id)
    /\ removed' = <<[id |-> id, present |-> Includes(Ids(clients), id)]>>

NextRemove == \E id \in IdUniverse : removeById(id)

RemoveSpec == InitRemove /\ [][NextRemove]_vars

\* ------------------------------------------------------------- claims
Distinct(s) == \A i, j \in DOMAIN s : i # j => s[i] # s[j]

\* the itinerary of the submitted clients in the order they were submitted
IdentityRoute(cs) == [k \in DOMAIN cs |-> RouteStop(cs[k], k)]

\* C1: no two client records of the registry share an id.
C1_UniqueIds == Distinct(Ids(clients))

\* a string of the reply that is not the id of a submitted client
HasForeignId(reply, req) ==
    \E k \in DOMAIN reply.ids :
        reply.ids[k] # NonString /\ ~Includes(Ids(req.toVisit), reply.ids[k])

\* C2: when the reply names an id that was not submitted, the request ends in
\* an error and the itinerary is not replaced.
C2_ForeignIdRejected ==
    [][\A i \in DOMAIN inflight : \A reply \in RouteReplies(inflight[i]) :
          (reply.kind = "array" /\ HasForeignId(reply, inflight[i])
             /\ routeResolved(i, reply))
          => (errorMessage' # Null /\ optimizedRoute' = optimizedRoute)]_vars

\* C3: the stopOrder of the k-th stop of the itinerary is k.
C3_StopOrderIsPosition ==
    \A k \in DOMAIN optimizedRoute : optimizedRoute[k].stopOrder = k

IsPermutation(a, b) ==
    /\ Len(a) = Len(b)
    /\ \A x \in Range(a) \cup Range(b) :
          Cardinality({i \in DOMAIN a : a[i] = x})
            = Cardinality({i \in DOMAIN b : b[i] = x})

\* C4: when the reply is a permutation p of the ids of the submitted clients S,
\* the itinerary has |S| stops, the k-th being the client with id p[k], with
\* stopOrder k.
C4_PermutationRoundTrip ==
    [][\A i \in DOMAIN inflight : \A reply \in RouteReplies(inflight[i]) :
          (reply.kind = "array" /\ inflight[i].toVisit # <<>>
             /\ IsPermutation(reply.ids, Ids(inflight[i].toVisit))
             /\ routeResolved(i, reply))
          => /\ Len(optimizedRoute') = Len(inflight[i].toVisit)
             /\ \A k \in DOMAIN optimizedRoute' :
                   \E c \in Range(inflight[i].toVisit) :
                      /\ c.id = reply.ids[k]
                      /\ optimizedRoute'[k] = RouteStop(c, k)]_vars

\* C4 witness: an itinerary of two different clients in the reverse of their
\* registry order.
C4_Witness ==
    /\ step = ROUTE
    /\ Len(optimizedRoute) = 2 /\ Len(clients) = 2
    /\ clients[1].id # clients[2].id
    /\ optimizedRoute[1] = RouteStop(clients[2], 1)
    /\ optimizedRoute[2] = RouteStop(clients[1], 2)

\* a reply that is not an array of strings for these clients
Malformed(reply) ==
    \/ reply.kind \in {"unparseable", "nonarray"}
    \/ reply.kind = "array" /\ \E k \in DOMAIN reply.ids : reply.ids[k] = NonString

\* C5: a request with N submitted clients whose reply is malformed yields the
\* N clients in the order submitted.
C5_MalformedGivesIdentity ==
    [][\A i \in DOMAIN inflight : \A reply \in RouteReplies(inflight[i]) :
          (Malformed(reply) /\ routeResolved(i, reply))
          => optimizedRoute' = IdentityRoute(inflight[i].toVisit)]_vars

\* C6: a request is never answered by an error because the reply was
\* unparseable, not an array, an array of non-strings or an empty array: it
\* completes with the identity-order itinerary and the step ROUTE.
C6_NoErrorOnMalformed ==
    [][\A i \in DOMAIN inflight : \A reply \in RouteReplies(inflight[i]) :
          (/\ inflight[i].toVisit # <<>>
           /\ \/ reply.kind \in {"unparseable", "nonarray"}
              \/ reply.kind = "array"
                   /\ \A k \in DOMAIN reply.ids : reply.ids[k] = NonString
           /\ routeResolved(i, reply))
          => /\ errorMessage' = Null
             /\ step' = ROUTE
             /\ optimizedRoute' = IdentityRoute(inflight[i].toVisit)]_vars

\* C7: no sequencing request is outstanding with an empty list of clients.
C7_NoEmptyRequest ==
    \A i \in DOMAIN inflight :
        inflight[i].kind = "route" => inflight[i].toVisit # <<>>

\* C8: every selected id is the id of a client of the registry.
C8_SelectionInRegistry ==
    \A k \in DOMAIN selectedClientIds :
        Includes(Ids(clients), selectedClientIds[k])

\* C9: removing an id that is not in the registry changes nothing, and
\* removing an id again after it was removed changes nothing.
C9_RemoveAbsentIsNoOp ==
    [][\A id \in IdUniverse :
          removeById(id)
          => /\ ~Includes(Ids(clients), id)
                => /\ clients' = clients
                   /\ selectedClientIds' = selectedClientIds
                   /\ optimizedRoute' = optimizedRoute
                   /\ step' = step
                   /\ errorMessage' = errorMessage
             /\ removeClient(clients', id) = clients']_vars

\* C9 witness: an id that was not in a non-empty registry has been removed.
C9_Witness ==
    /\ removed # <<>>
    /\ ~removed[1].present
    /\ clients # <<>>

\* C10: when the extraction returns zero records the registry is unchanged,
\* the message of the empty extraction is set and the busy flag is cleared.
C10_EmptyExtraction ==
    [][\A i \in DOMAIN inflight : \A t \in Times :
          extractResolved(i, [kind |-> "array", items |-> <<>>], t)
          => /\ clients' = clients
             /\ errorMessage' = "Nenhum cliente foi detectado no arquivo."
             /\ loading' = FALSE]_vars

\* C10 witness: the message of the empty extraction over a non-empty registry.
C10_Witness ==
    /\ errorMessage = "Nenhum cliente foi detectado no arquivo."
    /\ ~loading
    /\ clients # <<>>

\* C11: every record of the registry has a non-empty name and a non-empty
\* address.
C11_NameAndAddress ==
    \A k \in DOMAIN clients : clients[k].name # "" /\ clients[k].address # ""

\* the records of a whole batch, as the extraction at time t builds them
WholeBatch(items, t) == [k \in DOMAIN items |-> mapItem(items[k], t, k - 1)]

\* C12: an import leaves the registry unchanged or appends the whole batch;
\* every failure (no text, unparseable, not an array, an element that cannot
\* be mapped, upstream failure, read failure) leaves it unchanged.
C12_AllOrNothing ==
    [][/\ \A i \in DOMAIN inflight : \A reply \in ExtractReplies : \A t \in Times :
             extractResolved(i, reply, t)
             => \/ clients' = clients
                \/ /\ reply.kind = "array"
                   /\ \A k \in DOMAIN reply.items : ~reply.items[k].isNull
                   /\ clients' = clients \o WholeBatch(reply.items, t)
       /\ \A i \in DOMAIN inflight :
             (readerFails(i) \/ readerOnload(i)) => clients' = clients]_vars

\* C12 witness: the import of a batch with an element that cannot be mapped
\* has failed over a registry that holds a whole batch of two.
C12_Witness ==
    /\ clients = WholeBatch(<<Ana, Bia>>, 0)
    /\ errorMessage = "Erro ao processar PDF: ..."
    /\ ~loading

C14_EditReplacesOne ==
    [][handleSaveEdit
       => /\ Len(clients') = Len(clients)
          /\ Ids(clients') = Ids(clients)
          /\ Cardinality({k \in DOMAIN clients : clients'[k] # clients[k]}) <= 1
          /\ \A k \in DOMAIN clients :
                clients[k].id # editingClient[1].id => clients'[k] = clients[k]]_vars

\* C15: while a call to the external service is outstanding, the credential
\* is a configured one.
C15_NoCallWithoutCredential ==
    \A i \in DOMAIN inflight :
        inflight[i].kind \in {"extract", "route"}
        => apiKey \notin {"", "undefined"} /\ KeyLength(apiKey) > 5

\* C15 witness: a sequencing call is outstanding.
C15_Witness ==
    \E i \in DOMAIN inflight : inflight[i].kind = "route" /\ getAiClient

\* C16: at most one request is outstanding, and the busy flag is true while
\* one is.
C16_OneRequestAtATime ==
    /\ Len(inflight) <= 1
    /\ inflight # <<>> => loading

\* C16 witness: an extraction is outstanding over a registry with a selection,
\* so that both kinds of request could be asked for.
C16_Witness ==
    /\ Len(inflight) = 1 /\ inflight[1].kind = "extract"
    /\ loading
    /\ selectedClientIds # <<>>

\* C17: when no request is outstanding the busy flag is false: every request
\* that ended, also by a failure, has left the application idle.
C17_FailureReturnsToIdle == inflight = <<>> => ~loading

\* C18: when an extraction fails, or the call of a sequencing request fails,
\* the state after the request has an error message.
C18_FailureSetsMessage ==
    [][/\ \A i \in DOMAIN inflight : \A reply \in ExtractReplies : \A t \in Times :
             (~extractClientsFromPDF(reply, t).ok /\ extractResolved(i, reply, t))
             => errorMessage' # Null
       /\ \A i \in DOMAIN inflight : \A reply \in RouteReplies(inflight[i]) :
             (reply.kind = "throw" /\ routeResolved(i, reply))
             => errorMessage' # Null]_vars

\* C19: a step that enters PLANNER from another step leaves the itinerary
\* empty.
C19_ItineraryDiscarded ==
    [][(step # PLANNER /\ step' = PLANNER) => optimizedRoute' = <<>>]_vars

\* C20: no record of the registry has the id that the service put into an
\* extracted object; every id is one built from the clock and the index.
C20_IdIsLocal ==
    \A k \in DOMAIN clients :
        /\ clients[k].id # AiId
        /\ \E t \in Times, n \in 0..(MaxBatch - 1) : clients[k].id = ClientId(t, n)

\* C20 witness: the object that carried an id of its own is in the registry.
C20_Witness ==
    \E k \in DOMAIN clients :
        clients[k].name = "Bia" /\ clients[k].id = ClientId(0, 1)

\* C21: a reply that is a non-empty array of ids of the registry is taken as
\* it is, with no error: one stop for each element, in the order of the reply,
\* also when it repeats an id or leaves out a submitted one.
C21_NoPermutationCheck ==
    [][\A i \in DOMAIN inflight : \A reply \in RouteReplies(inflight[i]) :
          (/\ reply.kind = "array" /\ reply.ids # <<>>
           /\ \A k \in DOMAIN reply.ids :
                 Includes(Ids(inflight[i].snapshot), reply.ids[k])
           /\ routeResolved(i, reply))
          => /\ errorMessage' = Null
             /\ step' = ROUTE
             /\ Len(optimizedRoute') = Len(reply.ids)
             /\ \A k \in DOMAIN reply.ids : optimizedRoute'[k].id = reply.ids[k]]_vars

\* C21 witness: two stops for the only client of the registry, and no error.
C21_Witness ==
    /\ step = ROUTE /\ errorMessage = Null
    /\ Len(clients) = 1
    /\ Len(optimizedRoute) = 2
    /\ optimizedRoute[1].id = clients[1].id
    /\ optimizedRoute[2].id = clients[1].id

\* C22: every record that an import adds has a non-empty neighborhood, city,
\* state and country.
C22_DefaultsApplied ==
    [][\A i \in DOMAIN inflight : \A reply \in ExtractReplies : \A t \in Times :
          extractResolved(i, reply, t)
          => \A k \in (Len(clients) + 1)..Len(clients') :
                /\ clients'[k].neighborhood # ""
                /\ clients'[k].city # ""
                /\ clients'[k].state # ""
                /\ clients'[k].country # ""]_vars

\* C22 witness: the object that came without neighborhood, city and state is
\* in the registry with the defaults.
C22_Witness ==
    \E k \in DOMAIN clients :
        /\ clients[k].name = "Bia"
        /\ clients[k].neighborhood = "Centro"
        /\ clients[k].city = "Natal"
        /\ clients[k].state = "RN"
        /\ clients[k].country = "Brasil"

\* C23: every stop of an itinerary that a request sets is a client submitted
\* with that request.
C23_StopsWereSubmitted ==
    [][\A i \in DOMAIN inflight : \A reply \in RouteReplies(inflight[i]) :
          (routeResolved(i, reply) /\ step' = ROUTE)
          => \A k \in DOMAIN optimizedRoute' :
                Includes(Ids(inflight[i].toVisit), optimizedRoute'[k].id)]_vars

\* C24: the selection never holds the same id twice.
C24_SelectionDistinct == Distinct(selectedClientIds)

\* C24 witness: both records of the chosen neighborhood have the same id (see
\* C1) and the selection holds that id once.
C24_Witness ==
    /\ callArgs = 3 /\ selectedNeighborhood # ""
    /\ Len(clients) = 2 /\ clients[1].id = clients[2].id
    /\ clients[1].neighborhood = selectedNeighborhood
    /\ clients[2].neighborhood = selectedNeighborhood
    /\ selectedClientIds = <<clients[1].id>>

\* C25: toggling the id just toggled gives back the set of ids selected
\* before, and a toggle changes the membership of no other id.
C25_ToggleTwice ==
    [][\A c \in Range(clients) :
          toggleClientSelection(c)
          => /\ Range(toggle(selectedClientIds', c.id)) = Range(selectedClientIds)
             /\ \A id \in (Range(selectedClientIds) \cup Range(selectedClientIds'))
                           \ {c.id} :
                   Includes(selectedClientIds', id) = Includes(selectedClientIds, id)
             /\ Includes(selectedClientIds', c.id) = ~Includes(selectedClientIds, c.id)]_vars

\* C25 witness: the first of two selected ids was toggled off and on again,
\* which leaves it after the other.
C25_Witness ==
    /\ Len(clients) = 2 /\ Len(selectedClientIds) = 2
    /\ selectedClientIds[1] = clients[2].id
    /\ selectedClientIds[2] = clients[1].id
    /\ clients[1].id # clients[2].id

\* C26: a change of the neighborhood filter leaves the selection and the
\* registry as they were, and a request carries every client of the registry
\* whose id is selected, whatever the filter shows.
C26_FilterIsViewOnly ==
    [][/\ \A n \in neighborhoods \cup {""} :
             setSelectedNeighborhood(n)
             => selectedClientIds' = selectedClientIds /\ clients' = clients
       /\ (calculateRouteWithAI /\ Len(inflight') > Len(inflight))
             => \A k \in DOMAIN clients :
                   Includes(selectedClientIds, clients[k].id)
                   => Includes(inflight'[Len(inflight')].toVisit, clients[k])]_vars

\* C26 witness: a request is outstanding for a client that the chosen
\* neighborhood hides.
C26_Witness ==
    /\ selectedNeighborhood # ""
    /\ \E i \in DOMAIN inflight :
          /\ inflight[i].kind = "route"
          /\ \E k \in DOMAIN inflight[i].toVisit :
                inflight[i].toVisit[k].neighborhood # selectedNeighborhood

C28_FailedRequestFrame ==
    [][/\ \A i \in DOMAIN inflight : \A reply \in RouteReplies(inflight[i]) :
             (routeResolved(i, reply) /\ errorMessage' # Null)
             => /\ step' = step
                /\ optimizedRoute' = optimizedRoute
                /\ clients' = clients
                /\ selectedClientIds' = selectedClientIds
       /\ (calculateRouteWithAI /\ errorMessage' # Null)
             => /\ step' = step
                /\ optimizedRoute' = optimizedRoute
                /\ clients' = clients
                /\ selectedClientIds' = selectedClientIds]_vars

\* C28 witness: a request has failed for want of a resolved stop while the
\* itinerary of an earlier request is kept.
C28_Witness ==
    /\ errorMessage = "Nao foi possivel gerar a rota."
    /\ step = PLANNER
    /\ optimizedRoute # <<>>
    /\ ~loading

\* C29: saving an edit or deleting a client leaves the itinerary unchanged.
C29_ItineraryIsSnapshot ==
    [][(handleSaveEdit \/ \E c \in Range(clients) : deleteClient(c))
       => optimizedRoute' = optimizedRoute]_vars

\* C29 witness: the itinerary has a stop for a client that is no longer in
\* the registry.
C29_Witness ==
    /\ step = DATABASE
    /\ \E k \in DOMAIN optimizedRoute :
          ~Includes(Ids(clients), optimizedRoute[k].id)

\* C30: the clients of a request are the clients of the registry whose id is
\* in the set of selected ids, in the order of the registry; the itinerary of
\* the fallback names them in that order.
C30_RegistryOrder ==
    [][/\ (calculateRouteWithAI /\ Len(inflight') > Len(inflight))
             => inflight'[Len(inflight')].toVisit
                  = SelectSeq(clients, LAMBDA c : c.id \in Range(selectedClientIds))
       /\ \A i \in DOMAIN inflight : \A reply \in RouteReplies(inflight[i]) :
             (/\ reply.kind \in {"throw", "unparseable"}
              /\ inflight[i].toVisit # <<>>
              /\ routeResolved(i, reply))
             => Ids(optimizedRoute') = Ids(inflight[i].toVisit)]_vars

\* C30 witness: the second client was selected before the first and the
\* itinerary names them in the order of the registry.
C30_Witness ==
    /\ step = ROUTE
    /\ Len(clients) = 2 /\ clients[1].id # clients[2].id
    /\ selectedClientIds = <<clients[2].id, clients[1].id>>
    /\ Ids(optimizedRoute) = Ids(clients)
====
